---- MODULE Spec2Model ----
(***************************************************************************)
(* corobench: callback-style and coroutine-style composition of the same   *)
(* workload kernel.  The model covers the four task<T> headers             *)
(* (coroutine_async.hpp, coroutine_optimized.hpp, coroutine_await.hpp,     *)
(* coroutine_elidable.hpp), the continuation-passing header                *)
(* (callback_async.hpp) and the way benchmark_main.cpp drives them.        *)
(*                                                                         *)
(* A coroutine frame is a heap cell (frames); a task<T> object is a slot   *)
(* holding a coroutine handle (tasks); the call in progress, if any, is    *)
(* run.  Execution is single-threaded: while a chain is in progress only   *)
(* its own next step is enabled.                                           *)
(*                                                                         *)
(* Spec is a client that makes, moves, reads, awaits and drops tasks;      *)
(* BenchSpec is the benchmark bodies: one task or one continuation chain   *)
(* at a time, on every workload.                                           *)
(***************************************************************************)
EXTENDS Integers, FiniteSets, Sequences, TLC

\* ------------------------------------------------------------------ bounds
\* Small workloads 0..MaxX are given to the entry points.
MaxX == 4
\* task<int> objects the client holds.
MaxTasks == 2
\* Coroutine frames allocated in one behaviour (a frame's storage is not
\* handed out again, so a stale handle would stay visible).
MaxFrames == 4
\* Calls of single coroutines (async_compute, a throwing or a suspending
\* coroutine, an awaiting one) the client makes in one behaviour.
MaxCalls == 3
\* A workload one iteration short of overflowing the kernel's accumulator:
\* the kernel's sum still fits in int, the chain's final addition does not.
EdgeX == 11771
\* A workload whose accumulated sum no longer fits in a 32-bit int.
WrapX == 11772

\* ------------------------------------------------------- program constants
\* `int` is 32 bits wide.
INT_MAX == 2147483647
INT_MIN == -INT_MAX - 1
\* The workload of BM_Simple_*, BM_Chain_* and BM_ComplexChain_*.
BenchWorkload == 1000

Workloads == (0..MaxX) \cup {BenchWorkload, EdgeX, WrapX}

\* ------------------------------------------------------------ int arithmetic
\* a + b leaves the range of int: undefined behaviour in C++.
SignedOverflow(a, b) ==
    \/ b > 0 /\ a > INT_MAX - b
    \/ b < 0 /\ a < INT_MIN - b

\* a + b as a 32-bit two's complement addition (what a build without
\* overflow trapping computes), evaluated without leaving the int range.
AddInt(a, b) ==
    IF b > 0 /\ a > INT_MAX - b THEN (a - INT_MAX - 1) + (b - INT_MAX - 1)
    ELSE IF b < 0 /\ a < INT_MIN - b THEN (a + INT_MAX + 1) + (b + INT_MAX + 1)
    ELSE a + b

\* a % b of C++ for b > 0: the remainder of the division truncated towards
\* zero, so it carries the sign of a.
RemInt(a, b) ==
    LET m == a % b
    IN  IF a >= 0 \/ m = 0 THEN m ELSE m - b

\* i & 1 on a two's complement int: the lowest bit.
BitAnd1(i) == i % 2

Min(a, b) == IF a < b THEN a ELSE b

\* --------------------------------------------------------- workload kernel
\* The state of the kernel's loop: the accumulator `result`, and whether an
\* addition so far has overflowed (ub).
LoopStart == [result |-> 0, ub |-> FALSE]

\* The iteration without its parity term:  temp = i * 31.
LoopBody_noparity(i, acc) ==
    LET temp == i * 31
    IN  [result |-> AddInt(acc.result, temp),
         ub     |-> acc.ub \/ SignedOverflow(acc.result, temp)]

\* One iteration:  volatile int temp = i * 31 + (i & 1);  result += temp;
LoopBody(i, acc) ==
    LET temp == i * 31 + BitAnd1(i)
    IN  [result |-> AddInt(acc.result, temp),
         ub     |-> acc.ub \/ SignedOverflow(acc.result, temp)]

\* for (int i = ...; i < x; i = i + 1) body.  The iterations run in the
\* source's order; they are evaluated in segments of 32 and 1024 iterations
\* only to keep the evaluator's recursion shallow.  The guard on acc.result
\* states its type.
RECURSIVE ForLoop1(_, _, _)
ForLoop1(i, x, acc) ==
    IF i < x /\ acc.result \in INT_MIN..INT_MAX
    THEN ForLoop1(i + 1, x, LoopBody(i, acc))
    ELSE acc

RECURSIVE ForLoop32(_, _, _)
ForLoop32(i, x, acc) ==
    IF i < x /\ acc.result \in INT_MIN..INT_MAX
    THEN ForLoop32(Min(i + 32, x), x, ForLoop1(i, Min(i + 32, x), acc))
    ELSE acc

RECURSIVE ForLoop(_, _, _)
ForLoop(i, x, acc) ==
    IF i < x /\ acc.result \in INT_MIN..INT_MAX
    THEN ForLoop(Min(i + 1024, x), x, ForLoop32(i, Min(i + 1024, x), acc))
    ELSE acc

\* The kernel of async_compute: result = 0; the loop; static_cast<int>(result).
KernelLoop(x) == ForLoop(0, x, LoopStart)

\* The kernel on the workloads the model uses, evaluated once.
KernelInputs == (0..99) \cup Workloads
KernelTable == [x \in KernelInputs |-> KernelLoop(x)]
Kernel(x) == IF x \in KernelInputs THEN KernelTable[x] ELSE KernelLoop(x)

\* ------------------------------------------------------------------ state
VARIABLES
    workload,    \* the int workload the entry points are called with
    profile,     \* the namespace whose task<T> the client uses
    frames,      \* coroutine frames: promise, suspension point, parameter copies
    tasks,       \* the client's task<int> objects
    run,         \* the chain call in progress (coroutine body or continuations)
    obs,         \* the client's last move and last get() / co_await
    cbResult,    \* what the last final callback was handed
    kernelRuns,  \* how many times a coroutine has run the kernel's loop
    status       \* "running", or "terminated" once the process has died

vars == <<workload, profile, frames, tasks, run, obs, cbResult, kernelRuns, status>>

Profiles == {"async_coro", "async_coro_opt", "async_coro_await", "async_coro_elidable"}
TaskIds == 1..MaxTasks
Handles == 1..MaxFrames
nullptr == 0

\* ------------------------------------------------------- outcomes of a read
Returns(val) == [kind |-> "value", v |-> val]
Throws(what) == [kind |-> what, v |-> 0]
\* std::runtime_error("Invalid coroutine handle")
InvalidTask == Throws("InvalidTask")
\* std::runtime_error("No value available")
NoValue == Throws("NoValue")
\* std::rethrow_exception(promise.exception)
KernelFault == Throws("KernelFault")
\* The process dies (a trap or a fault on a wild access).
Crash == Throws("crash")
\* The awaiting coroutine is suspended and nothing holds its handle.
Suspended == Throws("suspended")
NoOutcome == Throws("none")

\* What a read of an indeterminate int may give.
Indeterminate == {0, -1}
\* What a read through a null coroutine handle may do.
NullDeref == {Crash} \cup {Returns(g) : g \in Indeterminate}

\* ------------------------------------------------------------ promise_type
\* An unused frame; `value` is std::optional<T> in async_coro (has = engaged)
\* and a plain T elsewhere (has = it has been assigned).
\* awaits: the handle given to the awaiter the coroutine is suspended on.
NoFrame ==
    [alloc |-> "free", fn |-> "none", done |-> FALSE,
     value |-> [has |-> FALSE, v |-> 0], exception |-> FALSE, param |-> nullptr,
     awaits |-> nullptr]

\* A coroutine has been called: its frame is allocated and its promise
\* constructed; initial_suspend is suspend_never, so its body starts.
NewPromise(fn) == [NoFrame EXCEPT !.alloc = "live", !.fn = fn]

return_value(f, val) == [f EXCEPT !.value = [has |-> TRUE, v |-> val]]

\* The capturing promise written like the others:  unhandled_exception() {}
unhandled_exception_noop(p, f) == f

\* A promise that also stores a default value when the body throws.
unhandled_exception_default(p, f) ==
    [f EXCEPT !.exception = TRUE, !.value = [has |-> TRUE, v |-> 0]]

\* async_coro:  exception = std::current_exception();   elsewhere:  {}
unhandled_exception(p, f) ==
    IF p = "async_coro" THEN [f EXCEPT !.exception = TRUE] ELSE f

final_suspend(f) == [f EXCEPT !.done = TRUE]

\* The lowest unused frame.
NewFrame(fr) ==
    CHOOSE h \in Handles :
        /\ fr[h].alloc = "free"
        /\ \A k \in Handles : fr[k].alloc = "free" => h <= k

CanAllocate(fr) == \E h \in Handles : fr[h].alloc = "free"

\* The client makes at most MaxCalls calls of single coroutines.
CallsLeft(fr) == Cardinality({h \in Handles : fr[h].alloc # "free"}) < MaxCalls

\* handle.destroy(): the frame goes, and with it the task parameter copy it
\* holds, whose destructor destroys the frame that task owns.
\* A second destroy() of the same frame is marked, so that it stays visible.
destroy(fr, h) ==
    [k \in Handles |->
        IF k = h \/ (fr[h].param # nullptr /\ k = fr[h].param)
        THEN [NoFrame EXCEPT !.alloc = IF fr[k].alloc = "live" THEN "destroyed"
                                       ELSE "destroyed twice"]
        ELSE fr[k]]

\* ---------------------------------------------------------------- task<T>
\* A task<int> object of the client: its only member is the handle.
NoTask == [alive |-> FALSE, handle |-> nullptr]
\* explicit task(std::coroutine_handle<promise_type> h) : handle(h) {}
MakeTask(h) == [alive |-> TRUE, handle |-> h]

\* get() without its first check, reading through the handle at once.
get_checked_unguarded(fr, h) ==
    IF h = nullptr THEN Crash
    ELSE IF fr[h].exception THEN KernelFault
    ELSE IF ~fr[h].value.has THEN NoValue
    ELSE Returns(fr[h].value.v)

\* get() handing out a default instead of throwing:  value.value_or(T{}).
get_checked_default(fr, h) ==
    IF h = nullptr THEN InvalidTask
    ELSE IF fr[h].exception THEN KernelFault
    ELSE IF ~fr[h].value.has THEN Returns(0)
    ELSE Returns(fr[h].value.v)

\* async_coro::task::get
get_checked(fr, h) ==
    IF h = nullptr THEN InvalidTask
    ELSE IF fr[h].exception THEN KernelFault
    ELSE IF ~fr[h].value.has THEN NoValue
    ELSE Returns(fr[h].value.v)

\* async_coro_opt / async_coro_await / async_coro_elidable task::get:
\* return handle.promise().value;
get_unchecked(fr, h) ==
    IF h = nullptr THEN NullDeref
    ELSE IF ~fr[h].value.has THEN {Returns(g) : g \in Indeterminate}
    ELSE {Returns(fr[h].value.v)}

\* A get() that gives its handle up, as std::future::get does.
task_after_get_consumed(ts, t) == [ts EXCEPT ![t].handle = nullptr]

\* The task after t.get(): get() assigns to no member and returns a copy of
\* the promise's value.
task_after_get(ts, t) == ts

\* t.get() in profile p: the set of things it may do.
get(p, fr, h) ==
    IF p = "async_coro" THEN {get_checked(fr, h)} ELSE get_unchecked(fr, h)

\* An awaiter that always suspends.
await_ready_never(fr, h) == {"not ready"}

\* awaiter::await_ready: handle.done().
await_ready(fr, h) ==
    IF h = nullptr THEN {"ready", "not ready", "crash"}
    ELSE IF fr[h].done THEN {"ready"} ELSE {"not ready"}

\* awaiter::await_resume: the same reads as get, on the awaiter's handle.
await_resume(p, fr, h) ==
    IF p = "async_coro" THEN {get_checked(fr, h)} ELSE get_unchecked(fr, h)

\* co_await t:  operator co_await makes awaiter{handle}; await_ready is
\* asked first; if it says no, await_suspend (which does nothing) leaves the
\* awaiting coroutine suspended; otherwise await_resume gives the result.
co_await(p, fr, h) ==
    UNION { IF r = "crash" THEN {Crash}
            ELSE IF r = "not ready" THEN {Suspended}
            ELSE await_resume(p, fr, h) : r \in await_ready(fr, h) }

\* ---------------------------------------------------------- async_compute
\* async_compute with a promise that suspends at initial_suspend: the frame
\* is made and the body has not started.
async_compute_lazy(fr, x) ==
    LET h == NewFrame(fr)
    IN  [frames |-> [fr EXCEPT ![h] = NewPromise("async_compute")],
         handle |-> h,
         ub     |-> FALSE]

\* task<int> async_compute(int x): a frame whose body ran the kernel and
\* co_returned its result, now suspended at final_suspend.
async_compute(fr, x) ==
    LET h == NewFrame(fr)
    IN  [frames |-> [fr EXCEPT ![h] =
                        final_suspend(return_value(NewPromise("async_compute"),
                                                   Kernel(x).result))],
         handle |-> h,
         ub     |-> Kernel(x).ub]

\* A coroutine whose body leaves by an exception before any co_return:
\* unhandled_exception() is called, then final_suspend.
throwing_coroutine(p, fr) ==
    LET h == NewFrame(fr)
    IN  [frames |-> [fr EXCEPT ![h] =
                        final_suspend(unhandled_exception(p, NewPromise("throwing")))],
         handle |-> h]

\* What an int overflow may do: wrap, or trap.
OverflowOutcomes(ub) == IF ub THEN {"wrap", "trap"} ELSE {"ok"}

\* ------------------------------------------------------- move, assign, drop
\* The move constructor without  other.handle = nullptr.
move_construct_keep(ts, dst, src) ==
    [ts EXCEPT ![dst] = [alive |-> TRUE, handle |-> ts[src].handle]]

\* task(task &&other) noexcept : handle(other.handle) { other.handle = nullptr; }
move_construct(ts, dst, src) ==
    [ts EXCEPT ![dst] = [alive |-> TRUE, handle |-> ts[src].handle],
               ![src] = [@ EXCEPT !.handle = nullptr]]

\* The move assignment without  other.handle = nullptr.
move_assign_keep(ts, fr, dst, src) ==
    IF dst # src
    THEN [tasks  |-> [ts EXCEPT ![dst] = [@ EXCEPT !.handle = ts[src].handle]],
          frames |-> IF ts[dst].handle # nullptr THEN destroy(fr, ts[dst].handle) ELSE fr]
    ELSE [tasks |-> ts, frames |-> fr]

\* The move assignment without  if (handle) handle.destroy().
move_assign_leak(ts, fr, dst, src) ==
    IF dst # src
    THEN [tasks  |-> [ts EXCEPT ![dst] = [@ EXCEPT !.handle = ts[src].handle],
                                ![src] = [@ EXCEPT !.handle = nullptr]],
          frames |-> fr]
    ELSE [tasks |-> ts, frames |-> fr]

\* task &operator=(task &&other) noexcept
move_assign(ts, fr, dst, src) ==
    IF dst # src
    THEN [tasks  |-> [ts EXCEPT ![dst] = [@ EXCEPT !.handle = ts[src].handle],
                                ![src] = [@ EXCEPT !.handle = nullptr]],
          frames |-> IF ts[dst].handle # nullptr THEN destroy(fr, ts[dst].handle) ELSE fr]
    ELSE [tasks |-> ts, frames |-> fr]

\* A destructor that lets the handle go without  handle.destroy().
destroy_task_leak(ts, fr, t) ==
    [tasks |-> [ts EXCEPT ![t] = NoTask], frames |-> fr]

\* ~task()
destroy_task(ts, fr, t) ==
    [tasks  |-> [ts EXCEPT ![t] = NoTask],
     frames |-> IF ts[t].handle # nullptr THEN destroy(fr, ts[t].handle) ELSE fr]

\* ------------------------------------------------ the chains, as coroutines
Chains == {"async_chain", "async_complex_chain"}
Steps(fn) ==
    IF fn = "async_compute" THEN 1 ELSE IF fn = "async_chain" THEN 2 ELSE 3

\* The frames one call allocates: the chain's own and one per step.
FramesNeeded(fn) == Steps(fn) + 1

CallPc(k) == IF k = 1 THEN "call1" ELSE IF k = 2 THEN "call2" ELSE "call3"
\* A chain that starts its next step without awaiting the one it started.
AwaitPc_skip(k) == IF k = 1 THEN "call2" ELSE IF k = 2 THEN "call3" ELSE "await3"
AwaitPc(k) == IF k = 1 THEN "await1" ELSE IF k = 2 THEN "await2" ELSE "await3"
StepOf(pc) ==
    IF pc \in {"call1", "await1"} THEN 1
    ELSE IF pc \in {"call2", "await2"} THEN 2 ELSE 3

\* The second step fed from the input:  async_compute(x % 100).
ChainArg_x(k, x, r) ==
    IF k = 1 THEN x
    ELSE IF k = 2 THEN RemInt(x, 100)
    ELSE RemInt(r.v2, 50)

\* The third step reduced like the second:  async_compute(v2 % 100).
ChainArg_mod100(k, x, r) ==
    IF k = 1 THEN x
    ELSE IF k = 2 THEN RemInt(r.v1, 100)
    ELSE RemInt(r.v2, 100)

\* The argument of the k-th async_compute call of a chain coroutine:
\* async_compute(x), async_compute(val1 % 100), async_compute(v2 % 50).
ChainArg(k, x, r) ==
    IF k = 1 THEN x
    ELSE IF k = 2 THEN RemInt(r.v1, 100)
    ELSE RemInt(r.v2, 50)

\* The chain returning its last step only:  co_return val2;  co_return v3;
ChainSum_last(fn, r) ==
    IF fn = "async_chain" THEN [v |-> r.v2, ub |-> FALSE]
    ELSE [v |-> r.v3, ub |-> FALSE]

\* co_return val1 + val2;   co_return v1 + v2 + v3;
ChainSum(fn, r) ==
    IF fn = "async_chain"
    THEN [v |-> AddInt(r.v1, r.v2), ub |-> SignedOverflow(r.v1, r.v2)]
    ELSE [v  |-> AddInt(AddInt(r.v1, r.v2), r.v3),
          ub |-> SignedOverflow(r.v1, r.v2) \/ SignedOverflow(AddInt(r.v1, r.v2), r.v3)]

\* int vK = co_await ...;
Bind(r, k, val) ==
    IF k = 1 THEN [r EXCEPT !.v1 = val]
    ELSE IF k = 2 THEN [r EXCEPT !.v2 = val]
    ELSE [r EXCEPT !.v3 = val]

\* -------------------------------------------- the chains, as continuations
\* The second continuation fed from the input:  async_compute<T>(x % 100, ...).
CallbackArg_x(k, x, r) ==
    IF k = 1 THEN x
    ELSE IF k = 2 THEN RemInt(x, 100)
    ELSE RemInt(r.v2, 50)

\* The argument of the k-th async_compute<T> call of callback_async.hpp:
\* x, result1 % 100 (v1 % 100), v2 % 50.
CallbackArg(k, x, r) ==
    IF k = 1 THEN x
    ELSE IF k = 2 THEN RemInt(r.v1, 100)
    ELSE RemInt(r.v2, 50)

\* A first continuation that calls final_callback itself.
Continuation_early(fn, k) == "final"

\* What the continuation of the k-th async_compute<T> does with its result:
\* it calls the next async_compute<T>, or (the innermost one) final_callback.
Continuation(fn, k) == IF k = Steps(fn) THEN "final" ELSE CallPc(k + 1)

\* What the innermost continuation hands to final_callback:
\* result, result1 + result2, v1 + v2 + v3.
CallbackSum(fn, r) ==
    IF fn = "async_compute" THEN [v |-> r.v1, ub |-> FALSE]
    ELSE IF fn = "async_chain"
    THEN [v |-> AddInt(r.v1, r.v2), ub |-> SignedOverflow(r.v1, r.v2)]
    ELSE [v  |-> AddInt(AddInt(r.v1, r.v2), r.v3),
          ub |-> SignedOverflow(r.v1, r.v2) \/ SignedOverflow(AddInt(r.v1, r.v2), r.v3)]

\* ------------------------------------------------------------ initial state
Idle ==
    [kind |-> "idle", fn |-> "none", pc |-> "none", dst |-> 0, frame |-> nullptr,
     tmp |-> nullptr, v1 |-> 0, v2 |-> 0, v3 |-> 0, cbs |-> <<>>]

\* The client's last read: which task, by get or co_await, what it gave, and
\* whether it directly followed another get() on the same task (again).
\* The client's last move, if nothing but reads came after it: from src into
\* dst, and what a get() on src could have given just before (before).
NoObs ==
    [op |-> "none", task |-> 0, again |-> FALSE, outcome |-> NoOutcome,
     src |-> 0, dst |-> 0, before |-> {}]
\* int result = 0;  with what the final callback did to it: how many times it
\* was invoked (n), and the continuations that had run by then (cbs).
NoResult == [fn |-> "none", v |-> 0, n |-> 0, cbs |-> <<>>]

Start ==
    /\ profile \in Profiles
    /\ frames = [h \in Handles |-> NoFrame]
    /\ tasks = [t \in TaskIds |-> NoTask]
    /\ run = Idle
    /\ obs = NoObs
    /\ cbResult = NoResult
    /\ kernelRuns = 0
    /\ status = "running"

\* A client that creates, moves, reads and drops task objects, on one workload.
Init == workload = MaxX /\ Start

\* The benchmark bodies, on every workload.
BenchInit == workload \in Workloads /\ Start

\* The client acts between calls: nothing is in progress.
ClientTurn == status = "running" /\ run.kind = "idle"

FreeFrames(fr) == Cardinality({h \in Handles : fr[h].alloc = "free"})

\* A new task object takes the first slot not in use (the slots are
\* interchangeable).
NewTask(ts, t) == ~ts[t].alive /\ \A u \in TaskIds : ~ts[u].alive => t <= u

\* No task object is in scope, as in the bodies of the BM_*_Callback
\* benchmarks.
NoTasks(ts) == \A t \in TaskIds : ~ts[t].alive

Terminate ==
    /\ status' = "terminated"
    /\ UNCHANGED <<workload, profile, frames, tasks, run, obs, cbResult, kernelRuns>>

\* ------------------------------------------------------- the client's calls
\* auto task = async_compute(workload);
CallAsyncCompute(t) ==
    /\ ClientTurn
    /\ NewTask(tasks, t)
    /\ CallsLeft(frames)
    /\ CanAllocate(frames)
    /\ LET c == async_compute(frames, workload)
       IN  \E o \in OverflowOutcomes(c.ub) :
             IF o = "trap" THEN Terminate
             ELSE /\ frames' = c.frames
                  /\ tasks' = [tasks EXCEPT ![t] = MakeTask(c.handle)]
                  /\ kernelRuns' = kernelRuns + 1
                  /\ obs' = NoObs
                  /\ UNCHANGED <<workload, profile, run, cbResult, status>>

\* auto task = f();  for a coroutine f returning task<int> whose body throws.
CallThrowing(t) ==
    /\ ClientTurn
    /\ NewTask(tasks, t)
    /\ CallsLeft(frames)
    /\ CanAllocate(frames)
    /\ LET c == throwing_coroutine(profile, frames)
       IN  /\ frames' = c.frames
           /\ tasks' = [tasks EXCEPT ![t] = MakeTask(c.handle)]
    /\ obs' = NoObs
    /\ UNCHANGED <<workload, profile, run, cbResult, kernelRuns, status>>

\* int result = task.get();
Get(t) ==
    /\ ClientTurn
    /\ tasks[t].alive
    /\ \E o \in get(profile, frames, tasks[t].handle) :
         /\ obs' = [obs EXCEPT !.op = "get", !.task = t, !.outcome = o,
                                !.again = obs.op = "get" /\ obs.task = t]
         /\ status' = IF o.kind = "crash" THEN "terminated" ELSE status
    /\ tasks' = task_after_get(tasks, t)
    /\ UNCHANGED <<workload, profile, frames, run, cbResult, kernelRuns>>

\* int v = co_await task;   in a coroutine of the client
Await(t) ==
    /\ ClientTurn
    /\ tasks[t].alive
    /\ \E o \in co_await(profile, frames, tasks[t].handle) :
         /\ obs' = [obs EXCEPT !.op = "await", !.task = t, !.outcome = o,
                                !.again = FALSE]
         /\ status' = IF o.kind = "crash" THEN "terminated" ELSE status
    /\ UNCHANGED <<workload, profile, frames, tasks, run, cbResult, kernelRuns>>

\* task dst(std::move(src));
MoveConstruct(dst, src) ==
    /\ ClientTurn
    /\ dst # src
    /\ NewTask(tasks, dst)
    /\ tasks[src].alive
    /\ tasks' = move_construct(tasks, dst, src)
    /\ obs' = [NoObs EXCEPT !.src = src, !.dst = dst,
                            !.before = get(profile, frames, tasks[src].handle)]
    /\ UNCHANGED <<workload, profile, frames, run, cbResult, kernelRuns, status>>

\* dst = std::move(src);   (src may be dst itself)
MoveAssign(dst, src) ==
    /\ ClientTurn
    /\ tasks[dst].alive
    /\ tasks[src].alive
    /\ LET m == move_assign(tasks, frames, dst, src)
       IN  /\ tasks' = m.tasks
           /\ frames' = m.frames
    /\ obs' = IF dst = src THEN [NoObs EXCEPT !.op = "self_assign", !.task = dst]
              ELSE [NoObs EXCEPT !.src = src, !.dst = dst,
                                 !.before = get(profile, frames, tasks[src].handle)]
    /\ UNCHANGED <<workload, profile, run, cbResult, kernelRuns, status>>

\* The task object goes out of scope.
DestroyTask(t) ==
    /\ ClientTurn
    /\ tasks[t].alive
    /\ LET m == destroy_task(tasks, frames, t)
       IN  /\ tasks' = m.tasks
           /\ frames' = m.frames
    /\ obs' = NoObs
    /\ UNCHANGED <<workload, profile, run, cbResult, kernelRuns, status>>

\* ------------------------------------------- a chain coroutine, step by step
\* auto task = async_chain(workload);  /  async_complex_chain(workload);
\* In async_coro_elidable the entry point is a plain function that first
\* evaluates async_compute(x) as the argument of the coroutine.
StartChain(t, fn) ==
    /\ ClientTurn
    /\ NewTask(tasks, t)
    /\ FreeFrames(frames) >= FramesNeeded(fn)
    /\ run' = [Idle EXCEPT !.kind = "coroutine", !.fn = fn, !.dst = t,
                           !.pc = IF profile = "async_coro_elidable"
                                  THEN "call1" ELSE "enter"]
    /\ obs' = NoObs
    /\ UNCHANGED <<workload, profile, frames, tasks, cbResult, kernelRuns, status>>

\* The chain coroutine is entered: its frame is allocated, a task parameter
\* is moved into the frame, and the body starts (suspend_never).
ChainEnter ==
    /\ status = "running"
    /\ run.kind = "coroutine"
    /\ run.pc = "enter"
    /\ LET hc == NewFrame(frames)
       IN  /\ frames' = [frames EXCEPT ![hc] =
                            [NewPromise(run.fn) EXCEPT !.param = run.tmp]]
           /\ run' = [run EXCEPT !.frame = hc, !.tmp = nullptr,
                                 !.pc = IF profile = "async_coro_elidable"
                                        THEN "await1" ELSE "call1"]
    /\ UNCHANGED <<workload, profile, tasks, obs, cbResult, kernelRuns, status>>

\* The operand of a co_await is evaluated: async_compute(...) runs to its
\* final suspension and returns a temporary task.
ChainCall ==
    /\ status = "running"
    /\ run.kind = "coroutine"
    /\ run.pc \in {"call1", "call2", "call3"}
    /\ LET k == StepOf(run.pc)
           c == async_compute(frames, ChainArg(k, workload, run))
       IN  \E o \in OverflowOutcomes(c.ub) :
             IF o = "trap" THEN Terminate
             ELSE /\ frames' = c.frames
                  /\ run' = [run EXCEPT !.tmp = c.handle,
                                        !.pc = IF run.frame = nullptr
                                               THEN "enter" ELSE AwaitPc(k)]
                  /\ kernelRuns' = kernelRuns + 1
                  /\ UNCHANGED <<workload, profile, tasks, obs, cbResult, status>>

\* co_await on the task: await_ready, then await_resume or suspension; the
\* temporary task dies at the end of the full expression.
ChainAwait ==
    /\ status = "running"
    /\ run.kind = "coroutine"
    /\ run.pc \in {"await1", "await2", "await3"}
    /\ LET k == StepOf(run.pc)
           awaited == IF run.tmp # nullptr THEN run.tmp ELSE frames[run.frame].param
           dropped == IF run.tmp # nullptr THEN destroy(frames, run.tmp) ELSE frames
       IN  \E o \in co_await(profile, frames, awaited) :
             IF o.kind = "crash" THEN Terminate
             ELSE IF o.kind = "value"
             THEN /\ frames' = dropped
                  /\ run' = [Bind(run, k, o.v) EXCEPT
                                !.tmp = nullptr,
                                !.pc = IF k = Steps(run.fn) THEN "return"
                                       ELSE CallPc(k + 1)]
                  /\ UNCHANGED <<workload, profile, tasks, obs, cbResult,
                                 kernelRuns, status>>
             ELSE IF o.kind = "suspended"
             THEN \* suspended for good; its caller gets the task
                  /\ frames' = IF run.tmp # nullptr
                               THEN [frames EXCEPT ![run.frame].param = run.tmp]
                               ELSE frames
                  /\ tasks' = [tasks EXCEPT ![run.dst] = MakeTask(run.frame)]
                  /\ run' = Idle
                  /\ UNCHANGED <<workload, profile, obs, cbResult, kernelRuns, status>>
             ELSE \* await_resume threw inside the body
                  /\ frames' = [dropped EXCEPT ![run.frame] =
                                   final_suspend(unhandled_exception(profile, @))]
                  /\ tasks' = [tasks EXCEPT ![run.dst] = MakeTask(run.frame)]
                  /\ run' = Idle
                  /\ UNCHANGED <<workload, profile, obs, cbResult, kernelRuns, status>>

\* co_return of the sum: return_value, final_suspend; the caller has the task.
ChainReturn ==
    /\ status = "running"
    /\ run.kind = "coroutine"
    /\ run.pc = "return"
    /\ LET s == ChainSum(run.fn, run)
       IN  \E o \in OverflowOutcomes(s.ub) :
             IF o = "trap" THEN Terminate
             ELSE /\ frames' = [frames EXCEPT ![run.frame] =
                                   final_suspend(return_value(@, s.v))]
                  /\ tasks' = [tasks EXCEPT ![run.dst] = MakeTask(run.frame)]
                  /\ run' = Idle
                  /\ UNCHANGED <<workload, profile, obs, cbResult, kernelRuns, status>>

\* --------------------------------------- a continuation chain, step by step
\* async_compute<int>(workload, cb) / async_chain<int>(workload, cb) /
\* async_complex_chain<int>(workload, cb)  with  cb = [&result](int val) {...}
StartCallback(fn) ==
    /\ ClientTurn
    /\ NoTasks(tasks)
    /\ run' = [Idle EXCEPT !.kind = "callback", !.fn = fn, !.pc = "call1"]
    /\ obs' = NoObs
    /\ cbResult' = NoResult
    /\ UNCHANGED <<workload, profile, frames, tasks, kernelRuns, status>>

\* async_compute<T>(x, callback): the kernel runs, then callback(result),
\* which is the k-th continuation of the chain.
CallbackCompute ==
    /\ status = "running"
    /\ run.kind = "callback"
    /\ run.pc \in {"call1", "call2", "call3"}
    /\ LET k == StepOf(run.pc)
           c == Kernel(CallbackArg(k, workload, run))
       IN  \E o \in OverflowOutcomes(c.ub) :
             IF o = "trap" THEN Terminate
             ELSE /\ run' = [Bind(run, k, c.result) EXCEPT
                                !.pc = Continuation(run.fn, k),
                                !.cbs = Append(run.cbs, k)]
                  /\ UNCHANGED <<workload, profile, frames, tasks, obs, cbResult,
                                 kernelRuns, status>>

\* The innermost continuation calls final_callback.
CallbackFinal ==
    /\ status = "running"
    /\ run.kind = "callback"
    /\ run.pc = "final"
    /\ LET s == CallbackSum(run.fn, run)
       IN  \E o \in OverflowOutcomes(s.ub) :
             IF o = "trap" THEN Terminate
             ELSE /\ cbResult' = [fn |-> run.fn, v |-> s.v,
                               n |-> cbResult.n + 1, cbs |-> run.cbs]
                  /\ run' = Idle
                  /\ UNCHANGED <<workload, profile, frames, tasks, obs, kernelRuns,
                                 status>>

\* ------------------------------------------- coroutines that really suspend
\* auto task = producer();  for a coroutine of the client returning task<int>
\* whose body suspends on an operation still pending before it runs the
\* kernel: the caller gets a task whose coroutine is not done.
CallDeferred(t) ==
    /\ ClientTurn
    /\ NewTask(tasks, t)
    /\ CallsLeft(frames)
    /\ CanAllocate(frames)
    /\ LET h == NewFrame(frames)
       IN  /\ frames' = [frames EXCEPT ![h] = NewPromise("deferred")]
           /\ tasks' = [tasks EXCEPT ![t] = MakeTask(h)]
    /\ obs' = NoObs
    /\ UNCHANGED <<workload, profile, run, cbResult, kernelRuns, status>>

\* A producer is suspended on its pending operation.
Pending(h) ==
    /\ frames[h].alloc = "live"
    /\ frames[h].fn = "deferred"
    /\ ~frames[h].done

\* The pending operation finishes and resumes the producer, which runs the
\* kernel and co_returns: return_value, then final_suspend (suspend_always),
\* which hands control back to whoever resumed it.
Complete(h) ==
    /\ ClientTurn
    /\ Pending(h)
    /\ frames' = [frames EXCEPT ![h] = final_suspend(return_value(@, Kernel(workload).result))]
    /\ kernelRuns' = kernelRuns + 1
    /\ UNCHANGED <<workload, profile, tasks, run, obs, cbResult, status>>

\* The pending operation fails and resumes the producer with an exception
\* that leaves its body: unhandled_exception, then final_suspend.
Fail(h) ==
    /\ ClientTurn
    /\ Pending(h)
    /\ frames' = [frames EXCEPT ![h] = final_suspend(unhandled_exception(profile, @))]
    /\ UNCHANGED <<workload, profile, tasks, run, obs, cbResult, kernelRuns, status>>

\* auto task = consumer(src);  for a coroutine of the client
\*   task<int> consumer(task<int> &p) { int v = co_await p; co_return v; }
\* await_ready is asked; if it says no, await_suspend(h) returns without
\* keeping h and the consumer stays suspended; otherwise await_resume gives
\* the value to co_return, or throws into the body.
StartAwaiting(t, src) ==
    /\ ClientTurn
    /\ NewTask(tasks, t)
    /\ tasks[src].alive
    /\ CallsLeft(frames)
    /\ CanAllocate(frames)
    /\ LET c == NewFrame(frames)
           p == tasks[src].handle
       IN  \E o \in co_await(profile, frames, p) :
             /\ frames' = [frames EXCEPT ![c] =
                    IF o.kind = "value"
                    THEN final_suspend(return_value(NewPromise("consumer"), o.v))
                    ELSE IF o.kind \in {"suspended", "crash"}
                    THEN [NewPromise("consumer") EXCEPT !.awaits = p]
                    ELSE final_suspend(unhandled_exception(profile, NewPromise("consumer")))]
             /\ tasks' = [tasks EXCEPT ![t] = MakeTask(c)]
             /\ obs' = [NoObs EXCEPT !.op = "await", !.task = src, !.outcome = o]
             /\ status' = IF o.kind = "crash" THEN "terminated" ELSE status
    /\ UNCHANGED <<workload, profile, run, cbResult, kernelRuns>>

Next ==
    \/ \E t \in TaskIds : CallAsyncCompute(t)
    \/ \E t \in TaskIds : CallThrowing(t)
    \/ \E t \in TaskIds : Get(t)
    \/ \E t \in TaskIds : Await(t)
    \/ \E dst, src \in TaskIds : MoveConstruct(dst, src)
    \/ \E dst, src \in TaskIds : MoveAssign(dst, src)
    \/ \E t \in TaskIds : DestroyTask(t)

Spec == Init /\ [][Next]_vars

\* benchmark_main.cpp: each body makes one task, reads it and lets it go out
\* of scope, or runs one continuation chain.
BenchNext ==
    \/ CallAsyncCompute(1)
    \/ \E fn \in Chains : StartChain(1, fn)
    \/ ChainEnter
    \/ ChainCall
    \/ ChainAwait
    \/ ChainReturn
    \/ Get(1)
    \/ DestroyTask(1)
    \/ \E fn \in {"async_compute"} \cup Chains : StartCallback(fn)
    \/ CallbackCompute
    \/ CallbackFinal

BenchSpec == BenchInit /\ [][BenchNext]_vars

\* A client whose producers finish later than they are started, and whose
\* consumers await them.
DeferredNext ==
    \/ \E t \in TaskIds : CallDeferred(t)
    \/ \E h \in Handles : Complete(h)
    \/ \E h \in Handles : Fail(h)
    \/ \E t, src \in TaskIds : StartAwaiting(t, src)
    \/ \E t \in TaskIds : Get(t)
    \/ \E t \in TaskIds : DestroyTask(t)

\* A pending operation finishes sooner or later, and the client does not stop
\* while it has something to do.
DeferredSpec ==
    /\ Init
    /\ [][DeferredNext]_vars
    /\ WF_vars(\E h \in Handles : Complete(h) \/ Fail(h))
    /\ WF_vars(DeferredNext)

\* ================================================================ properties
\* The client's last operation was get() on a task whose coroutine is fn.
GotFrom(fn) ==
    /\ obs.op = "get"
    /\ tasks[obs.task].handle # nullptr
    /\ frames[tasks[obs.task].handle].fn = fn

\* The last continuation chain to finish was fn(workload, final_callback).
CalledBack(fn) == cbResult.fn = fn

f(x) == Kernel(x).result

\* ------------------------------------------------------------------------ C1
\* C1: for every workload, the value that the continuation-passing
\* async_chain hands to final_callback equals the value get() returns on the
\* task of the coroutine async_chain, in each task profile.
C1_ChainVariantsAgree ==
    (CalledBack("async_chain") /\ GotFrom("async_chain"))
        => obs.outcome = Returns(cbResult.v)

\* Both variants of async_chain have run on the largest small workload in the
\* elidable profile, and the second step added to the first.
C1_Witness ==
    /\ CalledBack("async_chain")
    /\ GotFrom("async_chain")
    /\ profile = "async_coro_elidable"
    /\ workload = MaxX
    /\ obs.outcome.v > f(workload)

\* ------------------------------------------------------------------------ C2
\* f(x) + f(x mod 100), in int arithmetic.
ClosedFormOfInput(x) == AddInt(f(x), f(RemInt(x, 100)))

\* f(x) + f(f(x) mod 100), in int arithmetic.
ClosedFormOfResult(x) == AddInt(f(x), f(RemInt(f(x), 100)))

\* C2 as stated: chain(x), by continuations and by coroutines, equals
\* f(x) + f(x mod 100).
C2_ChainIsInputForm ==
    /\ CalledBack("async_chain") => cbResult.v = ClosedFormOfInput(workload)
    /\ GotFrom("async_chain") => obs.outcome = Returns(ClosedFormOfInput(workload))

\* C2 (amended): chain(x), by continuations and by coroutines, equals
\* f(x) + f(f(x) mod 100): the second step works on the first step's result.
C2_ChainIsResultForm ==
    /\ CalledBack("async_chain") => cbResult.v = ClosedFormOfResult(workload)
    /\ GotFrom("async_chain") => obs.outcome = Returns(ClosedFormOfResult(workload))

\* Both variants have delivered chain(x) for an x on which the two closed
\* forms differ.
C2_Witness ==
    /\ CalledBack("async_chain")
    /\ GotFrom("async_chain")
    /\ ClosedFormOfInput(workload) # ClosedFormOfResult(workload)

\* ------------------------------------------------------------------------ C3
\* The coroutine async_chain is at its co_return.
AtChainReturn == run.kind = "coroutine" /\ run.fn = "async_chain" /\ run.pc = "return"

\* C3: when the coroutine async_chain returns, val1 = f(x),
\* val2 = f(val1 mod 100), and the value written for get() is val1 + val2;
\* so chain(1000) = compute(1000) + compute(compute(1000) mod 100).
C3_ChainStepsAndSum ==
    [][(AtChainReturn /\ run'.kind = "idle")
        => /\ run.v1 = f(workload)
           /\ run.v2 = f(RemInt(run.v1, 100))
           /\ frames'[run.frame].value = [has |-> TRUE, v |-> AddInt(run.v1, run.v2)]
           /\ tasks'[run.dst].handle = run.frame]_vars

\* async_chain(1000) is at its co_return in the capturing and in the
\* optimized profile's shape, with both steps' values bound.
C3_Witness ==
    /\ AtChainReturn
    /\ workload = BenchWorkload
    /\ profile \in {"async_coro", "async_coro_opt"}
    /\ run.v1 = f(BenchWorkload)

\* ------------------------------------------------------------------------ C4
\* f(x) + f(f(x) mod 100) + f(f(f(x) mod 100) mod 50), in int arithmetic.
ComplexClosedForm(x) ==
    LET a == f(x)
        b == f(RemInt(a, 100))
        c == f(RemInt(b, 50))
    IN  AddInt(AddInt(a, b), c)

\* C4: complex_chain(x) equals f(x) + f(f(x) mod 100) + f(f(f(x) mod 100) mod 50),
\* as handed to final_callback and as returned by get() in every profile.
C4_ComplexChainClosedForm ==
    /\ CalledBack("async_complex_chain")
          => cbResult.v = ComplexClosedForm(workload)
    /\ GotFrom("async_complex_chain")
          => obs.outcome = Returns(ComplexClosedForm(workload))

\* Both variants have delivered complex_chain(x) for an x whose third step
\* does work.
C4_Witness ==
    /\ CalledBack("async_complex_chain")
    /\ GotFrom("async_complex_chain")
    /\ f(RemInt(f(RemInt(f(workload), 100)), 50)) > 0

\* ------------------------------------------------------------------------ C5
\* The sum over i in lo..hi-1 of (i*31 + (i mod 2)), in int arithmetic, by
\* halving the range.
RECURSIVE SumOver(_, _)
SumOver(lo, hi) ==
    IF hi <= lo THEN 0
    ELSE IF hi = lo + 1 THEN lo * 31 + (lo % 2)
    ELSE LET mid == (lo + hi) \div 2
         IN  AddInt(SumOver(lo, mid), SumOver(mid, hi))

SumTable == [w \in Workloads |-> SumOver(0, w)]

\* C5: async_compute(w) yields the sum over i in 0..w-1 of (i*31 + (i mod 2)),
\* by continuation and by coroutine alike and on every call; compute(0) = 0
\* and compute(4) = 188.
C5_KernelIsTheSum ==
    /\ CalledBack("async_compute") => cbResult.v = SumTable[workload]
    /\ GotFrom("async_compute") => obs.outcome = Returns(SumTable[workload])
    /\ (GotFrom("async_compute") /\ workload = 0) => obs.outcome = Returns(0)
    /\ (GotFrom("async_compute") /\ workload = 4) => obs.outcome = Returns(188)

\* compute(4) has been delivered by the continuation variant and, on its
\* second call, by the coroutine variant.
C5_Witness ==
    /\ CalledBack("async_compute")
    /\ GotFrom("async_compute")
    /\ kernelRuns = 2
    /\ workload = 4

\* ------------------------------------------------------------------------ C6
\* The client's last move was from task src into another task dst, and only
\* reads came after it.
Moved == obs.src # 0

\* The client's last operation read task t by op ("get" or "await").
Read(op, t) == obs.op = op /\ obs.task = t

\* C6: after a move construction or a move assignment into a different task,
\* the source holds no handle and (async_coro) get() on it fails with
\* InvalidTask, and get() on the destination gives what get() on the source
\* would have given before the move.
C6_MoveSemantics ==
    Moved =>
        /\ tasks[obs.src].handle = nullptr
        /\ (profile = "async_coro" /\ Read("get", obs.src))
              => obs.outcome = InvalidTask
        /\ Read("get", obs.dst) => obs.outcome \in obs.before
        /\ profile = "async_coro" => Cardinality(obs.before) = 1

\* In async_coro a task holding a value was moved and get() was then called
\* on the source.
C6_Witness ==
    /\ Moved
    /\ profile = "async_coro"
    /\ Read("get", obs.src)
    /\ obs.before = {Returns(f(workload))}
    /\ tasks[obs.dst].handle # nullptr

\* ------------------------------------------------------------------------ C7
\* C7: co_await on an empty, moved-from task fails with InvalidTask (here
\* for async_coro, whose await_resume has the check).
C7_AwaitEmptyIsInvalidTask ==
    (Moved /\ profile = "async_coro" /\ Read("await", obs.src))
        => obs.outcome = InvalidTask

\* ------------------------------------------------------------------------ C8
\* C8 as stated: in every profile get() on an empty (moved-from) task fails
\* with InvalidTask.
C8_GetEmptyIsInvalidTask ==
    (Moved /\ Read("get", obs.src)) => obs.outcome = InvalidTask

\* C8 (amended): get() on an empty (moved-from) task fails with InvalidTask
\* in async_coro only; in the other profiles it reads through the null
\* handle, and never reports InvalidTask.
C8_GetEmptyByProfile ==
    (Moved /\ Read("get", obs.src))
        => IF profile = "async_coro"
           THEN obs.outcome = InvalidTask
           ELSE obs.outcome \in NullDeref

\* get() on a moved-from task of the elidable profile went through the null
\* handle and the process died.
C8_Witness ==
    /\ Moved
    /\ profile = "async_coro_elidable"
    /\ Read("get", obs.src)
    /\ obs.outcome = Crash
    /\ status = "terminated"

\* ------------------------------------------------------------------------ C9
\* Task t owns a coroutine that is done and whose promise holds a stored
\* value or a stored exception.
Completed(t) ==
    /\ tasks[t].alive
    /\ tasks[t].handle # nullptr
    /\ frames[tasks[t].handle].done
    /\ frames[tasks[t].handle].value.has \/ frames[tasks[t].handle].exception

\* C9: every get() on a completed task runs no kernel and leaves the task's
\* handle and the promise as they were, and a get() that follows a get() on
\* the same task gives the same outcome.
C9_GetIsIdempotent ==
    [][(obs'.op = "get" /\ Completed(obs'.task))
        => /\ kernelRuns' = kernelRuns
           /\ tasks' = tasks
           /\ frames' = frames
           /\ (obs.op = "get" /\ obs.task = obs'.task)
                 => obs'.outcome = obs.outcome]_vars

\* get() was called twice in a row on a task whose coroutine stored an
\* exception.
C9_Witness ==
    /\ obs.op = "get"
    /\ obs.again
    /\ Completed(obs.task)
    /\ obs.outcome = KernelFault

\* ----------------------------------------------------------------------- C10
\* Task t of async_coro owns a coroutine whose body threw.
Faulted(t) ==
    /\ profile = "async_coro"
    /\ tasks[t].alive
    /\ tasks[t].handle # nullptr
    /\ frames[tasks[t].handle].fn = "throwing"

\* C10: in async_coro a coroutine whose body throws still gives its caller a
\* task; the exception is stored in the promise and no value is, the
\* coroutine is done, and get() and co_await on the task rethrow it.
C10_FaultIsCaptured ==
    \A t \in TaskIds :
        Faulted(t) =>
            /\ frames[tasks[t].handle].exception
            /\ frames[tasks[t].handle].done
            /\ ~frames[tasks[t].handle].value.has
            /\ (obs.op \in {"get", "await"} /\ obs.task = t)
                  => obs.outcome = KernelFault

\* The client awaited a task of async_coro whose coroutine had thrown.
C10_Witness ==
    /\ obs.op = "await"
    /\ Faulted(obs.task)
    /\ obs.outcome = KernelFault

\* ----------------------------------------------------------------------- C11
\* C11: when a task of async_coro whose promise holds a stored exception is
\* destroyed, whether or not anything read it, the process runs on, nothing
\* is reported to the client, and the coroutine frame is destroyed.
C11_DroppedFaultIsSilent ==
    [][\A t \in TaskIds :
          (Faulted(t) /\ frames[tasks[t].handle].exception /\ ~tasks'[t].alive)
             => /\ status' = status
                /\ obs' = NoObs
                /\ frames'[tasks[t].handle].alloc = "destroyed"
                /\ ~frames'[tasks[t].handle].exception]_vars

\* The only coroutine ever started threw, in async_coro, and its task is
\* gone: the frame is destroyed, no kernel ran, and the process runs on.
C11_Witness ==
    /\ profile = "async_coro"
    /\ status = "running"
    /\ NoTasks(tasks)
    /\ kernelRuns = 0
    /\ frames[1].alloc = "destroyed"
    /\ \A h \in Handles \ {1} : frames[h].alloc = "free"
    /\ obs = NoObs

\* ----------------------------------------------------------------------- C13
\* The task objects that hold handle h.
Owners(h) == {t \in TaskIds : tasks[t].alive /\ tasks[t].handle = h}

\* C13: whatever starts, move constructions, move assignments, self
\* assignments and destructions have happened, no coroutine handle (and so no
\* promise) is held by two task objects.
C13_UniqueOwner == \A h \in Handles : Cardinality(Owners(h)) <= 1

\* After a move into another task, with an earlier frame already destroyed,
\* the destination is the one owner of its frame and the source holds none.
C13_Witness ==
    /\ Moved
    /\ tasks[obs.dst].handle # nullptr
    /\ Owners(tasks[obs.dst].handle) = {obs.dst}
    /\ tasks[obs.src].handle = nullptr
    /\ \E h \in Handles : frames[h].alloc = "destroyed"

\* ----------------------------------------------------------------------- C14
\* Every frame is free, or live and held by exactly one task, or destroyed
\* once.
ReleasedOnce ==
    \A h \in Handles :
        /\ frames[h].alloc \in {"free", "live", "destroyed"}
        /\ frames[h].alloc = "live" <=> Cardinality(Owners(h)) = 1

\* A move assignment onto task t, which held a frame, has just been made.
AssignedOver(t) ==
    /\ obs'.op = "none"
    /\ obs'.src # 0
    /\ obs'.dst = t
    /\ tasks[t].alive
    /\ tasks[t].handle # nullptr

\* C14: a frame is destroyed exactly once: a move assignment onto a task
\* that holds a frame destroys that frame and takes the source's handle, a
\* self assignment changes nothing, the destruction of an empty task
\* destroys nothing, no frame is destroyed twice, and no frame stays live
\* without a task that holds it.
C14_ReleasedExactlyOnce ==
    /\ []ReleasedOnce
    /\ [][/\ \A t \in TaskIds :
                AssignedOver(t)
                   => /\ frames'[tasks[t].handle].alloc = "destroyed"
                      /\ tasks'[t].handle = tasks[obs'.src].handle
          /\ obs'.op = "self_assign" => (tasks' = tasks /\ frames' = frames)
          /\ \A t \in TaskIds :
                (tasks[t].alive /\ tasks[t].handle = nullptr /\ ~tasks'[t].alive)
                   => frames' = frames]_vars

\* Two computations were started and both frames are destroyed, every task
\* object being gone.
C14_Witness ==
    /\ NoTasks(tasks)
    /\ kernelRuns = 2
    /\ frames[1].alloc = "destroyed"
    /\ frames[2].alloc = "destroyed"
    /\ \A h \in Handles : frames[h].alloc # "live"

\* ----------------------------------------------------------------------- C16
\* Task t has just been made by a call of async_compute.
JustStarted(t) ==
    /\ ~tasks[t].alive
    /\ tasks'[t].alive
    /\ tasks'[t].handle # nullptr
    /\ frames[tasks'[t].handle].alloc = "free"
    /\ frames'[tasks'[t].handle].fn = "async_compute"

\* C16: a call of async_compute runs the kernel once, to its end, before the
\* caller has the task: the task's coroutine is done and holds f(workload);
\* and any task that holds an async_compute frame is in that state, read or
\* not.
C16_EagerStart ==
    /\ [][\A t \in TaskIds :
             JustStarted(t)
                => /\ kernelRuns' = kernelRuns + 1
                   /\ frames'[tasks'[t].handle].done
                   /\ frames'[tasks'[t].handle].value = [has |-> TRUE, v |-> f(workload)]]_vars
    /\ [](\A t \in TaskIds :
             (tasks[t].alive /\ tasks[t].handle # nullptr
                 /\ frames[tasks[t].handle].fn = "async_compute")
                => (frames[tasks[t].handle].done /\ frames[tasks[t].handle].value.has))

\* async_compute has just returned its task, which nothing has read.
C16_Witness ==
    /\ obs = NoObs
    /\ kernelRuns = 1
    /\ tasks[1].alive
    /\ tasks[1].handle = 1
    /\ frames[1].fn = "async_compute"
    /\ frames[1].done
    /\ frames[2].alloc = "free"

\* The consumer c is suspended on a co_await of a producer whose coroutine
\* has finished since.
SuspendedOnDone(c) ==
    /\ frames[c].alloc = "live"
    /\ frames[c].fn = "consumer"
    /\ ~frames[c].done
    /\ frames[c].awaits # nullptr
    /\ frames[frames[c].awaits].alloc = "live"
    /\ frames[frames[c].awaits].done

\* C12: a coroutine that awaits a producer which finishes later is resumed
\* (it runs on to its own end, unless its task is destroyed first) once the
\* producer has finished; it is not left suspended for ever.
C12_AwaiterIsResumed ==
    \A c \in Handles :
        SuspendedOnDone(c) ~> (frames[c].alloc # "live" \/ frames[c].done)

\* The completion cell of a promise.
CellOf(fr) ==
    IF fr.exception THEN (IF fr.value.has THEN "Both" ELSE "Failure")
    ELSE IF fr.value.has THEN "Value" ELSE "Empty"

\* C15: the completion cell of a coroutine never holds a value and a failure
\* together, and once it holds one of them it holds the same one, unchanged,
\* for as long as the coroutine's frame exists.
C15_CellWrittenOnce ==
    /\ [](\A h \in Handles : CellOf(frames[h]) # "Both")
    /\ [][\A h \in Handles :
            (frames[h].alloc = "live" /\ frames'[h].alloc = "live"
               /\ CellOf(frames[h]) # "Empty")
              => /\ frames'[h].value = frames[h].value
                 /\ frames'[h].exception = frames[h].exception]_vars

\* One producer went from Empty to Value and another from Empty to Failure.
C15_Witness ==
    \E h, k \in Handles :
        /\ frames[h].fn = "deferred" /\ frames[h].done
        /\ CellOf(frames[h]) = "Value"
        /\ frames[k].fn = "deferred" /\ frames[k].done
        /\ CellOf(frames[k]) = "Failure"

\* What a checked read of a completion cell gives.
ReadOf(fr) ==
    IF fr.exception THEN KernelFault
    ELSE IF fr.value.has THEN Returns(fr.value.v)
    ELSE NoValue

\* The step is a get() or an await_resume() on a task that holds a handle.
ReadStep ==
    /\ obs' # obs
    /\ obs'.op \in {"get", "await"}
    /\ obs'.outcome # Suspended
    /\ tasks[obs'.task].handle # nullptr

\* C19 as stated: in every profile a get() or await_resume() on a task that
\* holds a handle returns the value written to the cell, re-raises the stored
\* failure, or fails with NoValue when the cell is Empty.
C19_ReadIsNeverGarbage ==
    [][ReadStep => obs'.outcome = ReadOf(frames[tasks[obs'.task].handle])]_vars

\* C19 as the code has it: async_coro reads the cell as stated; the other
\* profiles return the promise's value member unchecked, which is the written
\* value once the coroutine has co_returned and an indeterminate int before
\* that or when its body threw.
C19_ReadByProfile ==
    [][ReadStep =>
         LET fr == frames[tasks[obs'.task].handle]
         IN  IF profile = "async_coro" THEN obs'.outcome = ReadOf(fr)
             ELSE IF fr.value.has THEN obs'.outcome = Returns(fr.value.v)
             ELSE obs'.outcome \in {Returns(g) : g \in Indeterminate}]_vars

\* An unchecked get() on a producer that has not finished gave -1.
C19_Witness ==
    /\ profile # "async_coro"
    /\ obs.op = "get"
    /\ obs.outcome = Returns(-1)
    /\ tasks[obs.task].alive
    /\ tasks[obs.task].handle # nullptr
    /\ frames[tasks[obs.task].handle].fn = "deferred"
    /\ CellOf(frames[tasks[obs.task].handle]) = "Empty"

\* ----------------------------------------------------------------------- C17
StepValue(r, k) == IF k = 1 THEN r.v1 ELSE IF k = 2 THEN r.v2 ELSE r.v3

\* The task a chain coroutine is about to co_await.
Awaited == IF run.tmp # nullptr THEN run.tmp ELSE frames[run.frame].param

\* The frames of async_compute coroutines that exist.
StepFrames ==
    {h \in Handles : frames[h].alloc = "live" /\ frames[h].fn = "async_compute"}

\* C17: in a chain, coroutine or callback, step k+1 is started only by the
\* chain that has just taken the finished result of step k (the coroutine
\* from the completed task it awaited, the callback from the kernel run of
\* step k); when a chain coroutine starts a step no earlier step is waiting
\* to be awaited, and every step's computation that exists has finished:
\* steps run one after the other, in order 1, 2, 3.
C17_StepsInOrder ==
    /\ [](run.kind = "coroutine"
            => /\ run.pc \in {"call1", "call2", "call3"} => run.tmp = nullptr
               /\ \A h \in StepFrames : frames[h].done)
    /\ [][\A k \in 1..2 :
            (run'.pc = CallPc(k + 1) /\ run.pc # run'.pc)
              => /\ run'.fn = run.fn
                 /\ run'.kind = run.kind
                 /\ k < IF run.fn = "async_chain" THEN 2 ELSE 3
                 /\ IF run.kind = "coroutine"
                    THEN /\ run.pc = (IF k = 1 THEN "await1" ELSE "await2")
                         /\ frames[Awaited].done
                         /\ frames[Awaited].value = [has |-> TRUE, v |-> StepValue(run', k)]
                         /\ kernelRuns' = kernelRuns
                    ELSE /\ run.pc = (IF k = 1 THEN "call1" ELSE "call2")
                         /\ run'.cbs = Append(run.cbs, k)
                         /\ StepValue(run', k)
                              = Kernel(CallbackArg(k, workload, run)).result]_vars

\* The complex chain coroutine is about to start its third step.
C17_Witness ==
    /\ run.kind = "coroutine"
    /\ run.fn = "async_complex_chain"
    /\ run.pc = "call3"
    /\ kernelRuns = 2
    /\ StepFrames = {}

\* ----------------------------------------------------------------------- C18
\* C18: whenever async_chain or async_complex_chain of any profile is at a
\* co_await, the awaited computation is finished with a value, await_ready
\* answers true and the co_await gives that value without suspending; and
\* the task a chain hands to its caller is finished with a value.
C18_ChainNeverSuspends ==
    /\ (run.kind = "coroutine" /\ run.pc \in {"await1", "await2", "await3"})
         => /\ Awaited # nullptr
            /\ frames[Awaited].alloc = "live"
            /\ frames[Awaited].fn = "async_compute"
            /\ frames[Awaited].done
            /\ frames[Awaited].value.has
            /\ await_ready(frames, Awaited) = {"ready"}
            /\ co_await(profile, frames, Awaited) = {Returns(frames[Awaited].value.v)}
    /\ \A t \in TaskIds :
         (tasks[t].alive /\ tasks[t].handle # nullptr
             /\ frames[tasks[t].handle].fn \in Chains)
           => /\ frames[tasks[t].handle].done
              /\ frames[tasks[t].handle].value.has
              /\ ~frames[tasks[t].handle].exception

\* The elidable complex chain is at its second co_await.
C18_Witness ==
    /\ profile = "async_coro_elidable"
    /\ run.kind = "coroutine"
    /\ run.fn = "async_complex_chain"
    /\ run.pc = "await2"
    /\ frames[Awaited].done

\* ----------------------------------------------------------------------- C20
\* The continuations of a callback chain, in nesting order.
Nesting(fn) ==
    IF fn = "async_compute" THEN <<1>>
    ELSE IF fn = "async_chain" THEN <<1, 2>> ELSE <<1, 2, 3>>

\* C20: a call of async_chain / async_complex_chain (x, final_callback) has
\* not invoked final_callback while it is still running; the step in which
\* it returns is the one invocation of final_callback, made after every
\* intermediate continuation has run once, in nesting order.
C20_FinalCallbackOnce ==
    /\ [](run.kind = "callback"
            => /\ cbResult.n = 0
               /\ \E m \in 0..3 : run.cbs = SubSeq(<<1, 2, 3>>, 1, m))
    /\ [](cbResult.fn # "none"
            => /\ cbResult.n = 1
               /\ cbResult.cbs = Nesting(cbResult.fn))
    /\ [][(run.kind = "callback" /\ run'.kind # "callback" /\ status' = "running")
            => /\ cbResult' = [fn |-> run.fn, v |-> cbResult'.v, n |-> 1,
                                cbs |-> Nesting(run.fn)]
               /\ run.cbs = Nesting(run.fn)]_vars

\* async_complex_chain has returned after its one final callback.
C20_Witness ==
    /\ run = Idle
    /\ cbResult.fn = "async_complex_chain"
    /\ cbResult.n = 1
    /\ cbResult.cbs = <<1, 2, 3>>

\* ----------------------------------------------------------------------- C21
\* The workload the chain in progress hands to its k-th step.
StepWorkload(k) ==
    IF run.kind = "coroutine" THEN ChainArg(k, workload, run)
    ELSE CallbackArg(k, workload, run)

\* C21: for every non-negative input, when a chain (coroutine or callback)
\* is about to start its second step the workload v1 % 100 it hands over is
\* in 0..99, and when it is about to start its third step the workload
\* v2 % 50 is in 0..49, also when the kernel's int accumulation has wrapped.
C21_ReducedWorkloadsNonNegative ==
    (workload >= 0 /\ run.kind \in {"coroutine", "callback"})
      => /\ run.pc = "call2" => StepWorkload(2) \in 0..99
         /\ run.pc = "call3" => StepWorkload(3) \in 0..49
====
